---- MODULE Spec2Model ----
(***************************************************************************)
(* RecursiveHyperSpace (src/__main__.py): points with more than three      *)
(* coordinates are folded into 3-space one extra coordinate at a time and  *)
(* clamped into a cone around the primary axis.                            *)
(*                                                                         *)
(* Numbers.  The program computes in float64.  The model computes in       *)
(* fixed point: a float is an integer count of 1/Scale units and every     *)
(* arithmetic operation rounds its result to the nearest unit, as every    *)
(* float operation rounds to the nearest float.                            *)
(*                                                                         *)
(* Arrays.  numpy arrays are mutable objects; the program copies some and  *)
(* shares others.  The model keeps them in `heap` (a sequence of           *)
(* <<x, y, z>>); an array reference is an index into it.  Traces and       *)
(* vector segments hold references, as the Python dicts do.                *)
(***************************************************************************)
EXTENDS Integers, Sequences, FiniteSets, TLC

\* ---------------------------------------------------------------- bounds
\* MaxPoints caps len(points_data), MaxLen the length of a coordinate list,
\* MaxBatch the length of a batch.
MaxPoints == 2
MaxLen == 6
MaxBatch == 2

\* ------------------------------------------------------------ arithmetic
Scale == 1000

Abs(a) == IF a < 0 THEN -a ELSE a

RoundDiv(n, d) ==
    IF n >= 0 THEN (2 * n + d) \div (2 * d)
    ELSE -((2 * (-n) + d) \div (2 * d))

ToFloat(c) == c * Scale

FxMul(a, b) == RoundDiv(a * b, Scale)

\* Division by 0.0 gives inf or nan in numpy and no exception; the model
\* writes 0 for that quotient and records every divisor in `divisors`.
FxDiv(a, b) == IF b = 0 THEN 0 ELSE RoundDiv(a * Scale, b)

RECURSIVE Newton(_, _)
Newton(n, g) ==
    LET g2 == (g + n \div g) \div 2
    IN IF g2 >= g THEN g ELSE Newton(n, g2)

FxSqrt(a) ==
    LET n == a * Scale
        r == IF n = 0 THEN 0 ELSE Newton(n, n)
    IN IF n - r * r > r THEN r + 1 ELSE r

\* cos and sin of the multiples of 45 degrees, in 1/1000.
CosFx(deg) ==
    LET d == deg % 360
    IN CASE d = 0 -> 1000
         [] d = 45 -> 707
         [] d = 90 -> 0
         [] d = 135 -> -707
         [] d = 180 -> -1000
         [] d = 225 -> -707
         [] d = 270 -> 0
         [] d = 315 -> 707

SinFx(deg) == CosFx(deg + 270)

\* --------------------------------------------------------- configuration
\* The constructor's defaults; the slopes 0.25 and 0.15 in 1/1000.
base_slope == 250
slope_growth == 150
angle_step == 45

\* limit_dimensions is not validated: 2 rejects every list, 4 and 5 cut
\* lists inside and behind the magnitudes of the pool.
LimitChoices == {2, 4, 5}

\* limit_dims, points_data, max_dims_used: the object's fields.
\* heap: the numpy arrays allocated so far.
\* last_call: operation and arguments of the latest call.
\* divisors: the values of current_r the latest call divided by.
VARIABLES limit_dims, points_data, max_dims_used, heap, last_call, divisors

vars == <<limit_dims, points_data, max_dims_used, heap, last_call, divisors>>

calculate_cone_slope(dim_index_offset) ==
    base_slope + slope_growth * (dim_index_offset + 1)

\* ----------------------------------------------------------------- arrays
NewArray(h, v) == [heap |-> Append(h, v), ref |-> Len(h) + 1]

Copy(h, ref) == NewArray(h, h[ref])

\* Mutant: the sum is written into the left operand (prev_pos += vector).
ArrayAdd_InPlace(h, a, b) ==
    [heap |-> [h EXCEPT ![a] = <<h[a][1] + h[b][1], h[a][2] + h[b][2],
                                 h[a][3] + h[b][3]>>],
     ref |-> a]

ArrayAdd(h, a, b) ==
    NewArray(h, <<h[a][1] + h[b][1], h[a][2] + h[b][2], h[a][3] + h[b][3]>>)

\* Mutant: only y is scaled.
ScaleYZ_OnlyY(h, ref, scale) ==
    [h EXCEPT ![ref] = <<h[ref][1], FxMul(h[ref][2], scale), h[ref][3]>>]

ScaleYZ(h, ref, scale) ==
    [h EXCEPT ![ref] = <<h[ref][1], FxMul(h[ref][2], scale), FxMul(h[ref][3], scale)>>]

Radius(p) == FxSqrt(FxMul(p[2], p[2]) + FxMul(p[3], p[3]))

\* -------------------------------------------------------------- add_point
\* Mutant: the size check sees the untruncated list.
Truncate_Skipped(coords, limit) == coords

\* Mutant: one coordinate too many is kept.
Truncate_OffByOne(coords, limit) ==
    IF Len(coords) > limit THEN SubSeq(coords, 1, limit + 1) ELSE coords

Truncate(coords, limit) ==
    IF Len(coords) > limit THEN SubSeq(coords, 1, limit) ELSE coords

TooSmall(coords) == Len(coords) < 3

\* Mutant: the extras start at the third coordinate (coords[2:]).
ExtraDims_FromThird(coords) == SubSeq(coords, 3, Len(coords))

ExtraDims(coords) == SubSeq(coords, 4, Len(coords))

\* Mutant: the count is stored without comparing.
TrackMaxDims_NoCompare(maxd, extra_dims) == Len(extra_dims)

TrackMaxDims(maxd, extra_dims) ==
    IF Len(extra_dims) > maxd THEN Len(extra_dims) ELSE maxd

\* Mutant: the offset lies in the x-y plane.
FoldVector_IntoX(magnitude, i) ==
    LET deg_angle == 90 + angle_step * i
    IN <<FxMul(ToFloat(magnitude), CosFx(deg_angle)),
         FxMul(ToFloat(magnitude), SinFx(deg_angle)), 0>>

FoldVector(magnitude, i) ==
    LET deg_angle == 90 + angle_step * i
    IN <<0, FxMul(ToFloat(magnitude), CosFx(deg_angle)),
            FxMul(ToFloat(magnitude), SinFx(deg_angle))>>

\* Mutant: the clamp also fires on equality.
NeedsClamp_OrEqual(current_r, max_radius) == current_r >= max_radius

NeedsClamp(current_r, max_radius) == current_r > max_radius

VectorLine(prev_pos, current_pos, dim_id) ==
    [start |-> prev_pos, end |-> current_pos,
     name |-> "D" \o ToString(dim_id) \o " Vector"]

FoldStep(fr, magnitude, i) ==
    LET dim_id == 4 + i
        a_vec == NewArray(fr.heap, FoldVector(magnitude, i))
        a_prev == Copy(a_vec.heap, fr.current_pos)
        a_cand == ArrayAdd(a_prev.heap, a_prev.ref, a_vec.ref)
        cand == a_cand.heap[a_cand.ref]
        this_cone_slope == calculate_cone_slope(i)
        max_radius == FxMul(Abs(cand[1]), this_cone_slope)
        current_r == Radius(cand)
        clamp == NeedsClamp(current_r, max_radius)
        scale == FxDiv(max_radius, current_r)
        h_cl == IF clamp THEN ScaleYZ(a_cand.heap, a_cand.ref, scale)
                ELSE a_cand.heap
        status == IF clamp THEN "(Clamped)" ELSE ""
        a_tr == Copy(h_cl, a_cand.ref)
    IN [heap |-> a_tr.heap,
        current_pos |-> a_cand.ref,
        trace_steps |-> Append(fr.trace_steps,
                          [pos |-> a_tr.ref,
                           label |-> "D" \o ToString(dim_id) \o " " \o status]),
        vector_lines |-> Append(fr.vector_lines,
                           VectorLine(a_prev.ref, a_cand.ref, dim_id)),
        divisors |-> IF clamp THEN Append(fr.divisors, current_r)
                     ELSE fr.divisors]

RECURSIVE FoldLoop(_, _, _)
FoldLoop(fr, extra_dims, i) ==
    IF i >= Len(extra_dims) THEN fr
    ELSE FoldLoop(FoldStep(fr, extra_dims[i + 1], i), extra_dims, i + 1)

\* Mutant: the point is inserted at the front.
StorePoint_AtFront(pts, pt) == <<pt>> \o pts

StorePoint(pts, pt) == Append(pts, pt)

add_point_fn(st, coords_in, label) ==
    LET coords == Truncate(coords_in, st.limit_dims)
    IN IF TooSmall(coords) THEN st
       ELSE
         LET a_base == NewArray(st.heap, <<ToFloat(coords[1]), ToFloat(coords[2]),
                                           ToFloat(coords[3])>>)
             extra_dims == ExtraDims(coords)
             a_cur == Copy(a_base.heap, a_base.ref)
             a_tr == Copy(a_cur.heap, a_cur.ref)
             fr == FoldLoop([heap |-> a_tr.heap,
                             current_pos |-> a_cur.ref,
                             trace_steps |-> <<[pos |-> a_tr.ref,
                                                label |-> label \o " (3D)"]>>,
                             vector_lines |-> <<>>,
                             divisors |-> st.divisors],
                            extra_dims, 0)
         IN [st EXCEPT
               !.max_dims_used = TrackMaxDims(st.max_dims_used, extra_dims),
               !.heap = fr.heap,
               !.divisors = fr.divisors,
               !.points_data = StorePoint(st.points_data,
                                  [label |-> label,
                                   trace |-> fr.trace_steps,
                                   vectors |-> fr.vector_lines])]

\* ------------------------------------------------------ add_points_from_list
BatchLabel(i) == "BatchPoint_" \o ToString(i + 1)

\* Mutant: the loop ends at the first rejected entry.
RECURSIVE add_points_from_list_fn_StopAtRejected(_, _, _)
add_points_from_list_fn_StopAtRejected(st, list_of_points, i) ==
    IF i >= Len(list_of_points) THEN st
    ELSE IF add_point_fn(st, list_of_points[i + 1], BatchLabel(i)) = st THEN st
    ELSE add_points_from_list_fn_StopAtRejected(
             add_point_fn(st, list_of_points[i + 1], BatchLabel(i)),
             list_of_points, i + 1)

RECURSIVE add_points_from_list_fn(_, _, _)
add_points_from_list_fn(st, list_of_points, i) ==
    IF i >= Len(list_of_points) THEN st
    ELSE add_points_from_list_fn(
             add_point_fn(st, list_of_points[i + 1], BatchLabel(i)),
             list_of_points, i + 1)

\* ------------------------------------------------------------------ inputs
\* Coordinate lists: every prefix of a pool entry, and the entry extended by
\* further coordinates up to MaxLen.  The pool covers an unclamped and a
\* clamped fold, negative and zero magnitudes, negative and zero x, a base
\* position outside every cone, and a candidate of radius zero.
Pool ==
    {<<8, 0, 0, 2, 20>>, <<-8, 3, 0, 2, 0>>, <<0, 0, 0, 0, -20>>,
     <<-8, 0, 0, 0, 2>>, <<8, 4, 3, 0, 0>>, <<-8, 0, 3, -20, 20>>}

\* Coordinates behind a pool entry are 30, which keeps every square within
\* 32-bit integers at 1/1000 resolution.
Resize(c, n) ==
    IF n <= Len(c) THEN SubSeq(c, 1, n)
    ELSE c \o [k \in 1..(n - Len(c)) |-> 30]

CoordLists == {Resize(c, n) : c \in Pool, n \in 0..MaxLen}

Labels == {"Point"}

BatchEntries == {<<1, 2>>, <<8, 0, 0, 2, 2, 30, 30>>}

RECURSIVE BatchesOfLen(_)
BatchesOfLen(n) ==
    IF n = 0 THEN {<<>>}
    ELSE {Append(b, e) : b \in BatchesOfLen(n - 1), e \in BatchEntries}

BatchLists == UNION {BatchesOfLen(n) : n \in 0..MaxBatch}

\* ----------------------------------------------------------------- actions
State ==
    [limit_dims |-> limit_dims, points_data |-> points_data,
     max_dims_used |-> max_dims_used, heap |-> heap, divisors |-> <<>>]

Install(st) ==
    /\ points_data' = st.points_data
    /\ max_dims_used' = st.max_dims_used
    /\ heap' = st.heap
    /\ divisors' = st.divisors
    /\ UNCHANGED limit_dims

Init ==
    /\ limit_dims \in LimitChoices
    /\ points_data = <<>>
    /\ max_dims_used = 0
    /\ heap = <<>>
    /\ divisors = <<>>
    /\ last_call = [op |-> "init", coords |-> <<>>, label |-> "", list |-> <<>>]

add_point(coords, label) ==
    /\ Len(points_data) < MaxPoints
    /\ \E st \in {add_point_fn(State, coords, label)} : Install(st)
    /\ last_call' = [op |-> "add_point", coords |-> coords, label |-> label,
                     list |-> <<>>]

add_points_from_list(list_of_points) ==
    /\ Len(points_data) < MaxPoints
    /\ \E st \in {add_points_from_list_fn(State, list_of_points, 0)} :
          /\ Len(st.points_data) <= MaxPoints
          /\ Install(st)
    /\ last_call' = [op |-> "add_points_from_list", coords |-> <<>>,
                     label |-> "", list |-> list_of_points]

Next ==
    \/ \E coords \in CoordLists, label \in Labels : add_point(coords, label)
    \/ \E list_of_points \in BatchLists : add_points_from_list(list_of_points)

Spec == Init /\ [][Next]_vars

\* ------------------------------------------------------------ observations
\* What a reader of points_data sees: every array reference replaced by the
\* array's current contents.
PointView(pt, h) ==
    [label |-> pt.label,
     trace |-> [k \in DOMAIN pt.trace |->
                  [pos |-> h[pt.trace[k].pos], label |-> pt.trace[k].label]],
     vectors |-> [k \in DOMAIN pt.vectors |->
                    [start |-> h[pt.vectors[k].start],
                     end |-> h[pt.vectors[k].end],
                     name |-> pt.vectors[k].name]]]

PointsView(pts, h) == [k \in DOMAIN pts |-> PointView(pts[k], h)]

SetMax(S) == CHOOSE m \in S : \A n \in S : n <= m

\* Number of coordinates add_point works with: the input's length, cut to the limit.
AcceptedLen(coords) ==
    IF Len(coords) > limit_dims THEN limit_dims ELSE Len(coords)

LastPoint == points_data[Len(points_data)]

IsClampedLabel(lbl) == lbl \in {"D4 (Clamped)", "D5 (Clamped)"}

\* ------------------------------------------------------------------ claims

\* C1: max_dims_used is the maximum over the stored points of
\* len(trace) - 1, and 0 when nothing is stored, after any mix of accepted,
\* truncated and rejected calls.
C1_MaxDimsIsMaxOverPoints ==
    max_dims_used =
        SetMax({0} \cup {Len(points_data[k].trace) - 1 : k \in DOMAIN points_data})

\* A point with two folds is followed by a point with none, added by a
\* truncating call.
C1_Witness ==
    /\ Len(points_data) = 2
    /\ Len(points_data[1].trace) = 3
    /\ Len(points_data[2].trace) = 1
    /\ max_dims_used = 2

\* C2: an add_point call whose list has fewer than 3 coordinates after
\* truncation stores nothing and changes neither points_data nor
\* max_dims_used.
C2_RejectedLeavesStateUnchanged ==
    [][(last_call'.op = "add_point" /\ AcceptedLen(last_call'.coords) < 3)
         => /\ points_data' = points_data
            /\ max_dims_used' = max_dims_used
            /\ heap' = heap]_vars

\* A call is rejected while a point with two folds is stored.
C2_Witness ==
    /\ last_call.op = "add_point"
    /\ AcceptedLen(last_call.coords) < 3
    /\ Len(points_data) = 1
    /\ max_dims_used = 2

\* C3: add_point on a list longer than limit_dims has the effect of add_point
\* with the same label on the list's first limit_dims coordinates: the same
\* stored Point and the same max_dims_used.
C3_TruncationEqualsPrefix ==
    [][(last_call'.op = "add_point" /\ Len(last_call'.coords) > limit_dims)
         => \A st \in {add_point_fn(State,
                             SubSeq(last_call'.coords, 1, limit_dims),
                             last_call'.label)} :
               /\ PointsView(points_data', heap') = PointsView(st.points_data, st.heap)
               /\ max_dims_used' = st.max_dims_used]_vars

\* An over-long list was accepted: its point is stored with limit_dims - 3 folds.
C3_Witness ==
    /\ last_call.op = "add_point"
    /\ Len(last_call.coords) > limit_dims
    /\ limit_dims = 4
    /\ Len(points_data) = 2
    /\ Len(LastPoint.trace) = 2

\* Numerical tolerance of the containment check: 1/200 of a unit.
Tol == Scale \div 200

\* Radius allowed at trace step k (k >= 1, extra-dimension index k - 1) for
\* primary coordinate x: |x| * (base_slope + slope_growth * k).
ConeRadius(x, k) == (Abs(x) * (base_slope + slope_growth * k)) \div Scale

Contained(p, k) ==
    p[2] * p[2] + p[3] * p[3] <= (ConeRadius(p[1], k) + Tol) * (ConeRadius(p[1], k) + Tol)

C5_TraceAndVectorLengths ==
    /\ \A n \in DOMAIN points_data :
          /\ Len(points_data[n].vectors) = Len(points_data[n].trace) - 1
          /\ Len(points_data[n].trace) - 1 >= 0
          /\ Len(points_data[n].trace) - 1 <= limit_dims - 3
    /\ (last_call.op = "add_point" /\ AcceptedLen(last_call.coords) >= 3)
          => /\ points_data # <<>>
             /\ Len(LastPoint.trace) = 1 + (AcceptedLen(last_call.coords) - 3)

\* A list of exactly 3 coordinates was stored: one trace step, no segment.
C5_Witness ==
    /\ last_call.op = "add_point"
    /\ Len(last_call.coords) = 3
    /\ points_data # <<>>
    /\ Len(LastPoint.trace) = 1
    /\ LastPoint.vectors = <<>>

\* C6: every radius the clamp divided by during the last call is positive.
C6_NoDivisionByZero == \A k \in DOMAIN divisors : divisors[k] > 0

\* In one call a fold of radius 0 was left unscaled and a later fold was scaled.
C6_Witness ==
    /\ last_call.op = "add_point"
    /\ divisors # <<>>
    /\ points_data # <<>>
    /\ Len(LastPoint.trace) = 3
    /\ LastPoint.trace[2].label = "D4 "
    /\ heap[LastPoint.trace[2].pos] = <<0, 0, 0>>
    /\ LastPoint.trace[3].label = "D5 (Clamped)"

\* The ordinals (1-based) of the entries of a batch that add_point accepts,
\* in input order.
RECURSIVE AcceptedOrdinals(_, _)
AcceptedOrdinals(list, k) ==
    IF k > Len(list) THEN <<>>
    ELSE IF AcceptedLen(list[k]) >= 3 THEN <<k>> \o AcceptedOrdinals(list, k + 1)
    ELSE AcceptedOrdinals(list, k + 1)

\* The point add_point builds from coords and label, on its own.
PointAlone(coords, label) ==
    LET st == add_point_fn([limit_dims |-> limit_dims, points_data |-> <<>>,
                            max_dims_used |-> 0, heap |-> <<>>,
                            divisors |-> <<>>], coords, label)
    IN PointView(st.points_data[1], st.heap)

\* C7: add_points_from_list appends exactly the points of the accepted
\* entries, in input order, each labelled "BatchPoint_" and its ordinal in the
\* input; rejected entries leave nothing in points_data or max_dims_used.
C7_BatchAppendsAcceptedInOrder ==
    [][last_call'.op = "add_points_from_list"
         => LET list == last_call'.list
                acc == AcceptedOrdinals(list, 1)
                old == Len(points_data)
            IN /\ Len(points_data') = old + Len(acc)
               /\ \A n \in 1..old :
                     PointView(points_data'[n], heap') = PointView(points_data[n], heap)
               /\ \A j \in 1..Len(acc) :
                     PointView(points_data'[old + j], heap') =
                        PointAlone(list[acc[j]], "BatchPoint_" \o ToString(acc[j]))
               /\ max_dims_used' =
                     SetMax({max_dims_used} \cup
                            {AcceptedLen(list[acc[j]]) - 3 : j \in 1..Len(acc)})]_vars

\* A batch whose first entry was rejected stored its second entry.
C7_Witness ==
    /\ last_call.op = "add_points_from_list"
    /\ Len(last_call.list) = 2
    /\ Len(last_call.list[1]) < 3
    /\ Len(points_data) = 2
    /\ LastPoint.label = "BatchPoint_2"
    /\ points_data[1].label = "Point"

\* C8: every add_point call leaves the stored points in place and unchanged
\* and appends at most one point at the end, and max_dims_used never
\* decreases.
C8_CollectionOnlyGrows ==
    [][/\ Len(points_data') >= Len(points_data)
       /\ SubSeq(points_data', 1, Len(points_data)) = points_data
       /\ \A n \in DOMAIN points_data :
             PointView(points_data'[n], heap') = PointView(points_data[n], heap)
       /\ max_dims_used' >= max_dims_used
       /\ last_call'.op = "add_point" => Len(points_data') <= Len(points_data) + 1]_vars

\* A clamped point was appended behind a stored clamped point.
C8_Witness ==
    /\ last_call.op = "add_point"
    /\ Len(points_data) = 2
    /\ Len(points_data[1].trace) = 3
    /\ IsClampedLabel(points_data[1].trace[3].label)
    /\ Len(points_data[2].trace) = 2
    /\ IsClampedLabel(points_data[2].trace[2].label)

\* C9: in every stored point, segment k starts at trace position k and ends
\* at trace position k + 1, whatever folds and calls came later.
C9_VectorsChainTrace ==
    \A n \in DOMAIN points_data :
        /\ DOMAIN points_data[n].vectors = 1..(Len(points_data[n].trace) - 1)
        /\ \A k \in DOMAIN points_data[n].vectors :
              /\ heap[points_data[n].vectors[k].start] = heap[points_data[n].trace[k].pos]
              /\ heap[points_data[n].vectors[k].end] = heap[points_data[n].trace[k + 1].pos]

\* The first stored point has two segments, its second fold was clamped, and
\* a later call stored a clamped point too.
C9_Witness ==
    /\ Len(points_data) = 2
    /\ Len(points_data[1].vectors) = 2
    /\ heap[points_data[1].vectors[1].start] # heap[points_data[1].vectors[1].end]
    /\ IsClampedLabel(points_data[1].trace[3].label)
    /\ Len(points_data[2].vectors) = 2
    /\ IsClampedLabel(points_data[2].trace[2].label)

\* C10: every trace position of a stored point has the x of its base step,
\* and the base step of the point add_point stores is the first three
\* accepted coordinates, unclamped.
C10_PrimaryAxisAndBaseUntouched ==
    /\ \A n \in DOMAIN points_data : \A k \in DOMAIN points_data[n].trace :
          heap[points_data[n].trace[k].pos][1] = heap[points_data[n].trace[1].pos][1]
    /\ (last_call.op = "add_point" /\ AcceptedLen(last_call.coords) >= 3)
          => /\ points_data # <<>>
             /\ heap[LastPoint.trace[1].pos] =
                   <<last_call.coords[1] * Scale, last_call.coords[2] * Scale,
                     last_call.coords[3] * Scale>>

\* A base position outside the first cone was stored as given and its folds
\* were clamped.
C10_Witness ==
    /\ last_call.op = "add_point"
    /\ points_data # <<>>
    /\ Len(LastPoint.trace) = 3
    /\ heap[LastPoint.trace[1].pos] = <<8 * Scale, 4 * Scale, 3 * Scale>>
    /\ IsClampedLabel(LastPoint.trace[2].label)
    /\ heap[LastPoint.trace[3].pos][1] = 8 * Scale

====
